---------------------------- MODULE Spec2Model ----------------------------
(***************************************************************************)
(* Community-embedding notebook (src/come/com_emb.ipynb): the embedding    *)
(* file load, KMeans, compute_gamma and the training loop.                 *)
(*                                                                         *)
(* Numbers are exact: a tensor entry is an integer, or a fraction          *)
(* <<num, den>>, or NaN; floating-point rounding is not modelled.  Calls   *)
(* into torch/sklearn whose results the notebook does not inspect (the     *)
(* network forward pass, the mixture fit, backward, the optimizer) are     *)
(* steps that either complete or raise.                                    *)
(***************************************************************************)
EXTENDS Integers, Sequences, FiniteSets, TLC

VARIABLES
    \* ---- KMeans(x, K, Niter) locals
    kx,        \* x: the batch, a sequence of rows (each a sequence of integers)
    kK,        \* K
    kNiter,    \* Niter
    ki,        \* number of completed iterations of the for loop
    c,         \* centroids: sequence of [n, s] = per-dimension sums s over count n
    D_ij,      \* squared distances, numerators over the common denominator DL
    cl,        \* hard labels, 0-based
    pi,        \* soft affinities 1 - normalize(D_ij), entries <<num, den>>
    Ncl,       \* torch.bincount(cl) of the last centroid update
    kpc,       \* "idle" | "loop" | "returned" | "raised"
    kerr,      \* exception raised inside KMeans, "" if none
    \* ---- embedding file load
    file,      \* the lines of the embedding file, header first
    skipgram,  \* f.readlines(): lines, each a sequence of tokens (digit sequences)
    dataset,   \* OrderedDict as the sequence of its <<key, value>> items
    x,         \* rows of torch.FloatTensor(list(dataset.values()))
    lpc,       \* "read" | "popped" | "dict" | "tensor" | "idle"
    \* ---- training cell
    batch_size,
    num_epochs,
    K,
    pc,        \* position in the training cell
    epoch,     \* loop variable of `for epoch in range(num_epochs)`, -1 before
    remaining, \* sampler indices not yet drawn in this epoch
    X_batch,   \* rows of the current batch
    batchKeys, \* the dataset keys the current batch was fetched under
    epochKeys, \* the keys fetched so far in this epoch, in order
    epochStart,\* len(train_loss) when the epoch began
    nbatch,    \* batches fetched so far in the run
    gmmFit,    \* what gmm was last fitted on: 0 the raw x, b the output for batch b
    probsFit,  \* the value of gmmFit that produced the current probs, -1 if none
    loss,
    train_loss,
    nstep,     \* opt.step() calls
    nzero,     \* opt.zero_grad() calls
    printed,   \* the last "Training loss" line: [slice, mean]
    err,       \* exception that ended the cell, "" if none
    \* ---- compute_gamma and the lines after it
    gpi,       \* pi argument (rows of integers)
    probs,
    gamma,     \* entries <<num, den>>
    N_k,       \* N = gamma.sum(dim=0), entries <<num, den>>
    pi_k,      \* pi as rebound to N / X_batch.size(0), entries <<num, den>>
    gpc        \* "call" | "gamma" | "N" | "pi" | "idle"

kmVars == <<kx, kK, kNiter, ki, c, D_ij, cl, pi, Ncl, kpc, kerr>>
ldVars == <<file, skipgram, dataset, x, lpc>>
trVars == <<batch_size, num_epochs, K, pc, epoch, remaining, X_batch, batchKeys,
            epochKeys, epochStart, nbatch, gmmFit, probsFit, loss, train_loss,
            nstep, nzero, printed, err>>
gmVars == <<gpi, probs, gamma, N_k, pi_k, gpc>>

vars == <<kmVars, ldVars, trVars, gmVars>>

\* ------------------------------------------------------------------ bounds
MaxM == 4          \* rows of a stand-alone KMeans batch
MaxCoord == 2      \* coordinates of a stand-alone batch are 0..MaxCoord
MaxK == 3          \* cluster counts 1..MaxK
MaxNiter == 2      \* Niter of a stand-alone KMeans call

\* ------------------------------------------------------------------ helpers
RECURSIVE SumSeq(_)
SumSeq(s) == IF s = <<>> THEN 0 ELSE Head(s) + SumSeq(Tail(s))

RECURSIVE ProdSeq(_)
ProdSeq(s) == IF s = <<>> THEN 1 ELSE Head(s) * ProdSeq(Tail(s))

Min2(a, b) == IF a <= b THEN a ELSE b

\* A function on 1..n as the tuple of its values.
Tup(f) == f \o <<>>

\* 0/0 of the centroid update, and everything computed from it.
NaN == -1
IsNaN(v) == v = NaN

\* ------------------------------------------------------------------ normalize
\* torch.min / torch.max over all entries; NaN propagates.
TensorMin(v) ==
    LET es == {v[i][j] : i \in DOMAIN v, j \in DOMAIN v[1]}
    IN IF NaN \in es THEN NaN ELSE CHOOSE m \in es : \A e \in es : m <= e

TensorMax(v) ==
    LET es == {v[i][j] : i \in DOMAIN v, j \in DOMAIN v[1]}
    IN IF NaN \in es THEN NaN ELSE CHOOSE m \in es : \A e \in es : m >= e

\* range_v = torch.max(v) - min_v
RangeOf(v) ==
    IF IsNaN(TensorMin(v)) THEN NaN ELSE TensorMax(v) - TensorMin(v)

\* The else branch: torch.zeros(vector.size()) names `vector`, which is bound
\* nowhere in the notebook, so evaluating it raises NameError.
NormalizeElse(v) == [ok |-> FALSE, err |-> "NameError", val |-> <<>>]

\* normalize(v): `range_v > 0` is False for 0 and for NaN.
normalize(v) ==
    LET min_v   == TensorMin(v)
        range_v == RangeOf(v)
    IN IF ~IsNaN(range_v) /\ range_v > 0
       THEN [ok |-> TRUE, err |-> "",
             val |-> Tup([i \in DOMAIN v |->
                        Tup([j \in DOMAIN v[i] |-> <<v[i][j] - min_v, range_v>>])])]
       ELSE NormalizeElse(v)

\* 1 - normalize(D_ij), entrywise on fractions.
OneMinus(n) ==
    Tup([i \in DOMAIN n |->
           Tup([j \in DOMAIN n[i] |-> <<n[i][j][2] - n[i][j][1], n[i][j][2]>>])])

\* ------------------------------------------------------------------ KMeans
\* x[1:K+1, :]: the K rows after the first.
InitCentroidsShifted(pts, k) ==
    Tup([j \in 1..Min2(k, Len(pts) - 1) |-> [n |-> 1, s |-> pts[j + 1]]])

\* c = x[:K, :].clone(): the first K rows (all of them when the batch is shorter).
InitCentroids(pts, k) ==
    Tup([j \in 1..Min2(k, Len(pts)) |-> [n |-> 1, s |-> pts[j]]])

\* Common denominator of the distance matrix: the product of the squared
\* counts of the centroids that are numbers.
DL(cs) ==
    ProdSeq(Tup([j \in DOMAIN cs |-> IF cs[j].n = 0 THEN 1 ELSE cs[j].n * cs[j].n]))

\* ((x_i - c_j) ** 2).sum(-1) for one sample and one centroid, over DL(cs).
SqDist(row, cj, L) ==
    IF cj.n = 0 THEN NaN
    ELSE SumSeq(Tup([d \in DOMAIN row |->
                   (row[d] * cj.n - cj.s[d]) * (row[d] * cj.n - cj.s[d])]))
         * (L \div (cj.n * cj.n))

Dist(pts, cs) ==
    LET L == DL(cs)
    IN Tup([i \in DOMAIN pts |-> Tup([j \in DOMAIN cs |-> SqDist(pts[i], cs[j], L)])])

\* The scan with a later column also replacing the current one on a tie.
RECURSIVE ArgMinScanLast(_, _, _)
ArgMinScanLast(row, j, best) ==
    IF j > Len(row) \/ IsNaN(row[best]) THEN best
    ELSE IF IsNaN(row[j]) \/ row[j] <= row[best]
         THEN ArgMinScanLast(row, j + 1, j)
         ELSE ArgMinScanLast(row, j + 1, best)

\* argmin of one row, as the reduction scans it: a later column replaces the
\* current one when it is not >= it, and the scan stops at a NaN.
RECURSIVE ArgMinScan(_, _, _)
ArgMinScan(row, j, best) ==
    IF j > Len(row) \/ IsNaN(row[best]) THEN best
    ELSE IF IsNaN(row[j]) \/ row[j] < row[best]
         THEN ArgMinScan(row, j + 1, j)
         ELSE ArgMinScan(row, j + 1, best)

\* D_ij.argmin(dim=1): 0-based column index per row.
ArgMinRows(D) == Tup([i \in DOMAIN D |-> ArgMinScan(D[i], 2, 1) - 1])

MaxLabel(labels) == CHOOSE m \in {labels[i] : i \in DOMAIN labels} :
                        \A i \in DOMAIN labels : labels[i] <= m

\* torch.bincount(cl, weights=w): length max(cl)+1.
BinCount(labels, w) ==
    Tup([j \in 1..(MaxLabel(labels) + 1) |->
        SumSeq(Tup([i \in DOMAIN labels |-> IF labels[i] = j - 1 THEN w[i] ELSE 0]))])

Ones(labels) == Tup([i \in DOMAIN labels |-> 1])

Column(pts, d) == Tup([i \in DOMAIN pts |-> pts[i][d]])

\* c[:, d] = bincount(cl, weights=x[:, d]) / Ncl for every d.  The right-hand
\* side has len(Ncl) entries; a single entry broadcasts to every centroid.
UpdateCentroids(pts, cs, labels) ==
    LET cnt == BinCount(labels, Ones(labels))
        Dim == Len(pts[1])
        src(j) == IF Len(cnt) = 1 THEN 1 ELSE j
    IN Tup([j \in DOMAIN cs |->
          [n |-> cnt[src(j)],
           s |-> Tup([d \in 1..Dim |-> BinCount(labels, Column(pts, d))[src(j)]])]])

\* The assignment c[:, d] = ... is accepted when the shapes agree or broadcast.
ShapesAgree(cs, cnt) == Len(cnt) = Len(cs) \/ Len(cnt) = 1

\* for i in range(Niter): another pass is due.
KMeansLoopGuard == kpc = "loop" /\ ki < kNiter

\* One pass of the body of `for i in range(Niter)` (lines 152-159).
KMeansIter ==
    /\ KMeansLoopGuard
    /\ LET D   == Dist(kx, c)
           lab == ArgMinRows(D)
           nrm == normalize(D)
           cnt == BinCount(lab, Ones(lab))
       IN /\ D_ij' = D
          /\ cl' = lab
          /\ IF ~nrm.ok
             THEN /\ kpc' = "raised"
                  /\ kerr' = nrm.err
                  /\ UNCHANGED <<pi, Ncl, c, ki>>
             ELSE /\ pi' = OneMinus(nrm.val)
                  /\ Ncl' = cnt
                  /\ IF ShapesAgree(c, cnt)
                     THEN /\ c' = UpdateCentroids(kx, c, lab)
                          /\ ki' = ki + 1
                          /\ UNCHANGED <<kpc, kerr>>
                     ELSE /\ kpc' = "raised"
                          /\ kerr' = "RuntimeError"
                          /\ UNCHANGED <<c, ki>>
    /\ UNCHANGED <<kx, kK, kNiter>>

\* return cl, pi (line 168)
KMeansReturn ==
    /\ kpc = "loop"
    /\ ki = kNiter
    /\ kpc' = "returned"
    /\ UNCHANGED <<kx, kK, kNiter, ki, c, D_ij, cl, pi, Ncl, kerr>>

\* Entry of KMeans(x, K, Niter): lines 140-148.
KMeansEntry(pts, k, Niter) ==
    /\ kx' = pts
    /\ kK' = k
    /\ kNiter' = Niter
    /\ ki' = 0
    /\ c' = InitCentroids(pts, k)
    /\ D_ij' = <<>>
    /\ cl' = <<>>
    /\ pi' = <<>>
    /\ Ncl' = <<>>
    /\ kpc' = "loop"
    /\ kerr' = ""

\* ------------------------------------------------------------------ stand-alone KMeans
RECURSIVE SeqsUpTo(_, _)
SeqsUpTo(S, n) ==
    IF n = 0 THEN {<<>>}
    ELSE LET prev == SeqsUpTo(S, n - 1)
         IN prev \cup {Append(s, e) : s \in {p \in prev : Len(p) = n - 1}, e \in S}

Batches1D == {b \in SeqsUpTo({<<v>> : v \in 0..MaxCoord}, MaxM) : Len(b) >= 1}

IdleKM ==
    /\ kx = <<>> /\ kK = 0 /\ kNiter = 0 /\ ki = 0 /\ c = <<>> /\ D_ij = <<>>
    /\ cl = <<>> /\ pi = <<>> /\ Ncl = <<>> /\ kpc = "idle" /\ kerr = ""

IdleLoad ==
    /\ file = <<>> /\ skipgram = <<>> /\ dataset = <<>> /\ x = <<>> /\ lpc = "idle"

IdleTrain ==
    /\ batch_size = 0 /\ num_epochs = 0 /\ K = 0 /\ pc = "idle" /\ epoch = -1
    /\ remaining = {} /\ X_batch = <<>> /\ batchKeys = <<>> /\ epochKeys = <<>>
    /\ epochStart = 0 /\ nbatch = 0 /\ gmmFit = 0 /\ probsFit = -1 /\ loss = 0
    /\ train_loss = <<>> /\ nstep = 0 /\ nzero = 0 /\ printed = <<>> /\ err = ""

IdleGamma ==
    /\ gpi = <<>> /\ probs = <<>> /\ gamma = <<>> /\ N_k = <<>> /\ pi_k = <<>>
    /\ gpc = "idle"

InitKM ==
    /\ IdleLoad /\ IdleTrain /\ IdleGamma
    /\ kx \in Batches1D
    /\ kK \in 1..MaxK
    /\ kNiter \in 1..MaxNiter
    /\ ki = 0
    /\ c = InitCentroids(kx, kK)
    /\ D_ij = <<>>
    /\ cl = <<>>
    /\ pi = <<>>
    /\ Ncl = <<>>
    /\ kpc = "loop"
    /\ kerr = ""

NextKM ==
    \/ KMeansIter /\ UNCHANGED <<ldVars, trVars, gmVars>>
    \/ KMeansReturn /\ UNCHANGED <<ldVars, trVars, gmVars>>

SpecKM == InitKM /\ [][NextKM]_vars


\* ------------------------------------------------------------------ two-blob batches
BlobSize == 6      \* points per blob
BlobSep == 10      \* offset of the second blob along both axes

\* Point k of blob b: a 3-wide grid of distinct points, shifted by b * BlobSep.
BlobPoint(b, k) == <<b * BlobSep + (k % 3), b * BlobSep + (k \div 3)>>

BlobOf(row) == IF row[1] >= BlobSep THEN 1 ELSE 0

AllBlobRows ==
    [i \in 1..(2 * BlobSize) |->
        IF i <= BlobSize THEN BlobPoint(0, i - 1) ELSE BlobPoint(1, i - 1 - BlobSize)]

Reverse(s) == [i \in 1..Len(s) |-> s[Len(s) + 1 - i]]

\* A batch holding every blob point once: rows p and q first, the others after
\* them in generation order or reversed.
BlobBatch(p, q, rev) ==
    LET IsRest(r) == r # AllBlobRows[p] /\ r # AllBlobRows[q]
        rest == SelectSeq(AllBlobRows, IsRest)
    IN <<AllBlobRows[p], AllBlobRows[q]>> \o (IF rev THEN Reverse(rest) ELSE rest)

InitBlobs ==
    /\ IdleLoad /\ IdleTrain /\ IdleGamma
    /\ \E p \in 1..(2 * BlobSize), q \in 1..(2 * BlobSize), rev \in BOOLEAN :
          /\ p # q
          /\ kx = BlobBatch(p, q, rev)
    /\ kK = 2
    /\ kNiter = 1
    /\ ki = 0
    /\ c = InitCentroids(kx, kK)
    /\ D_ij = <<>>
    /\ cl = <<>>
    /\ pi = <<>>
    /\ Ncl = <<>>
    /\ kpc = "loop"
    /\ kerr = ""

SpecBlobs == InitBlobs /\ [][NextKM]_vars

\* ------------------------------------------------------------------ claims on KMeans
AllDistancesEqual ==
    /\ D_ij # <<>>
    /\ ~IsNaN(TensorMin(D_ij))
    /\ TensorMin(D_ij) = TensorMax(D_ij)

AllOnes(m) == \A i \in DOMAIN m : \A j \in DOMAIN m[i] : m[i][j][1] = m[i][j][2]

AllZero(m) == \A i \in DOMAIN m : \A j \in DOMAIN m[i] : m[i][j][1] = 0

\* C2: when every entry of the distance matrix is the same (max == min),
\* normalize returns an all-zero tensor of the same shape without raising, and
\* KMeans goes on with a soft-affinity matrix pi that is all ones.
C2_DegenerateNormalizeIsZero ==
    AllDistancesEqual =>
        /\ normalize(D_ij).ok
        /\ DOMAIN normalize(D_ij).val = DOMAIN D_ij
        /\ AllZero(normalize(D_ij).val)
        /\ kerr = ""
        /\ DOMAIN pi = DOMAIN D_ij
        /\ AllOnes(pi)

\* The minimum of a row as torch reports it: NaN when the row holds one.
RowHasNaN(row) == \E j \in DOMAIN row : IsNaN(row[j])

IsRowMinimum(row, k) ==
    IF RowHasNaN(row) THEN IsNaN(row[k])
    ELSE \A j \in DOMAIN row : row[k] <= row[j]

IsLowestMinimum(row, k) ==
    /\ k \in DOMAIN row
    /\ IsRowMinimum(row, k)
    /\ \A j \in 1..(k - 1) : ~IsRowMinimum(row, j)

\* C4: for every distance matrix computed in a KMeans iteration the hard
\* label of each sample is the column of its row's minimum, and among several
\* columns holding the minimum the lowest index.
C4_ArgminLowestIndex ==
    D_ij # <<>> =>
        /\ DOMAIN cl = DOMAIN D_ij
        /\ \A i \in DOMAIN D_ij : IsLowestMinimum(D_ij[i], cl[i] + 1)

\* A row whose minimum is held by two columns, labelled with the lower one.
C4_Witness ==
    /\ D_ij # <<>>
    /\ \E i \in DOMAIN D_ij : \E j, k \in DOMAIN D_ij[i] :
          /\ j < k
          /\ ~RowHasNaN(D_ij[i])
          /\ IsRowMinimum(D_ij[i], j)
          /\ IsRowMinimum(D_ij[i], k)
          /\ cl[i] = j - 1

SameLabelIffSameBlob ==
    \A i, j \in DOMAIN kx : (cl[i] = cl[j]) <=> (BlobOf(kx[i]) = BlobOf(kx[j]))

\* C5 as stated: on a two-blob batch, whatever the order of its rows, KMeans
\* with K = 2 and Niter = 1 returns labels that agree exactly on same-blob
\* points.
C5_BlobsAnyOrder ==
    kpc = "returned" => SameLabelIffSameBlob

\* C5 amended: the same, for batches whose first two rows (the initial
\* centroids) come from different blobs.
C5_BlobsWhenSeedsDiffer ==
    (kpc = "returned" /\ BlobOf(kx[1]) # BlobOf(kx[2])) => SameLabelIffSameBlob

C5_Witness ==
    /\ kpc = "returned"
    /\ Len(kx) = 2 * BlobSize
    /\ BlobOf(kx[1]) # BlobOf(kx[2])
    /\ SameLabelIffSameBlob


\* ------------------------------------------------------------------ embedding file load
MaxLines == 3      \* data lines of an embedding file

\* A line is the sequence of its space-separated tokens, a token the sequence
\* of its decimal digits.
IdTokens == {<<0>>, <<1>>, <<2>>, <<7>>, <<1, 0>>, <<0, 1>>}
ValueTokens == {<<3>>, <<4>>}

\* int(num) on a digit string.
RECURSIVE StrToInt(_)
StrToInt(tok) ==
    IF tok = <<>> THEN 0
    ELSE 10 * StrToInt(SubSeq(tok, 1, Len(tok) - 1)) + tok[Len(tok)]

\* vectorize(row): np.array(row.split(" ")).astype(float)
vectorize(row) == Tup([d \in DOMAIN row |-> StrToInt(row[d])])

\* d[key] = value on a dict kept as its items in insertion order: a key already
\* there keeps its place and takes the new value.
DictSet(d, key, value) ==
    IF \E i \in DOMAIN d : d[i][1] = key
    THEN Tup([i \in DOMAIN d |-> IF d[i][1] = key THEN <<key, value>> ELSE d[i]])
    ELSE Append(d, <<key, value>>)

\* dict(skipgram[i].split(" ", 1) for i in range(len(skipgram)))  (line 120)
RECURSIVE DictOfLines(_, _)
DictOfLines(lines, d) ==
    IF lines = <<>> THEN d
    ELSE DictOfLines(Tail(lines), DictSet(d, Head(Head(lines)), Tail(Head(lines))))

\* {int(num): vectorize(v) for num, v in d.items()}  (line 121)
RECURSIVE IntKeyed(_, _)
IntKeyed(items, d) ==
    IF items = <<>> THEN d
    ELSE IntKeyed(Tail(items),
                  DictSet(d, StrToInt(Head(items)[1]), vectorize(Head(items)[2])))

\* One item placed into an ascending list, after the items not above it.
RECURSIVE InsertSorted(_, _)
InsertSorted(sorted, item) ==
    IF sorted = <<>> THEN <<item>>
    ELSE IF item[1] < Head(sorted)[1] THEN <<item>> \o sorted
         ELSE <<Head(sorted)>> \o InsertSorted(Tail(sorted), item)

RECURSIVE SortItems(_, _)
SortItems(items, acc) ==
    IF items = <<>> THEN acc
    ELSE SortItems(Tail(items), InsertSorted(acc, Head(items)))

\* The d.items() of the int-keyed dict, left in insertion order.
ItemsUnsorted(items) == items

\* sorted(d.items()): keys of a dict are distinct, so the key decides.
SortedItems(items) == SortItems(items, <<>>)

\* skipgram2dict(skipgram)
skipgram2dict(lines) ==
    SortedItems(IntKeyed(DictOfLines(lines, <<>>), <<>>))

DataLines == {<<id, v>> : id \in IdTokens, v \in ValueTokens}

Files ==
    {<<<<<<Len(body)>>, <<1>>>>>> \o body :
        body \in {b \in SeqsUpTo(DataLines, MaxLines) : Len(b) >= 1}}

\* skipgram = f.readlines()  (line 265)
InitLoad ==
    /\ IdleKM /\ IdleTrain /\ IdleGamma
    /\ file \in Files
    /\ skipgram = file
    /\ dataset = <<>>
    /\ x = <<>>
    /\ lpc = "read"

\* skipgram.pop(0)  (line 266)
PopHeader ==
    /\ lpc = "read"
    /\ skipgram' = Tail(skipgram)
    /\ lpc' = "popped"
    /\ UNCHANGED <<file, dataset, x>>

\* dataset = skipgram2dict(skipgram)  (line 267)
BuildDataset ==
    /\ lpc = "popped"
    /\ dataset' = skipgram2dict(skipgram)
    /\ lpc' = "dict"
    /\ UNCHANGED <<file, skipgram, x>>

\* x = torch.FloatTensor(list(dataset.values()))  (line 268)
BuildX ==
    /\ lpc = "dict"
    /\ x' = Tup([i \in DOMAIN dataset |-> dataset[i][2]])
    /\ lpc' = "tensor"
    /\ UNCHANGED <<file, skipgram, dataset>>

NextLoad ==
    \/ PopHeader /\ UNCHANGED <<kmVars, trVars, gmVars>>
    \/ BuildDataset /\ UNCHANGED <<kmVars, trVars, gmVars>>
    \/ BuildX /\ UNCHANGED <<kmVars, trVars, gmVars>>

SpecLoad == InitLoad /\ [][NextLoad]_vars

\* ------------------------------------------------------------------ claim on the load
FileData == Tail(file)

LineId(l) == StrToInt(FileData[l][1])

DistinctNodeIds == \A l, m \in DOMAIN FileData : l # m => LineId(l) # LineId(m)

\* Number of data lines whose node id is below that of line l.
IdsBelow(l) == Cardinality({m \in DOMAIN FileData : LineId(m) < LineId(l)})

\* C9: when the data lines carry distinct integer node ids, the header is
\* discarded and x has one row per data line, the row at position p being the
\* vector of the line with the p-th smallest node id.
C9_RowsInAscendingIdOrder ==
    (lpc = "tensor" /\ DistinctNodeIds) =>
        /\ Len(x) = Len(FileData)
        /\ \A l \in DOMAIN FileData :
              x[IdsBelow(l) + 1] = vectorize(Tail(FileData[l]))

\* A loaded file whose ids are distinct, come out of file order and are not
\* contiguous, and whose string order differs from their integer order.
C9_Witness ==
    /\ lpc = "tensor"
    /\ DistinctNodeIds
    /\ Len(FileData) = 3
    /\ LineId(1) = 10 /\ LineId(2) = 2 /\ LineId(3) = 7
    /\ x = <<vectorize(Tail(FileData[2])), vectorize(Tail(FileData[3])),
             vectorize(Tail(FileData[1]))>>


\* ------------------------------------------------------------------ compute_gamma
MaxCells == 4      \* entries of a probs matrix handed to compute_gamma

PiWeights == 0..2
\* probs is clamped from below by eps (line 188): never zero.
ProbWeights == 1..2

\* a / b + c / d
FracAdd(p, q) == <<p[1] * q[2] + q[1] * p[2], p[2] * q[2]>>

RECURSIVE FracSum(_)
FracSum(fs) == IF fs = <<>> THEN <<0, 1>> ELSE FracAdd(Head(fs), FracSum(Tail(fs)))

\* pi * probs with pi of shape (1, K) broadcast over the rows of probs.
Numerator(p, pr) ==
    Tup([i \in DOMAIN pr |->
           Tup([k \in DOMAIN pr[i] |-> (IF Len(p) = 1 THEN p[1][k] ELSE p[i][k]) * pr[i][k]])])

\* torch.sum(t, dim=0, keepdim=True): one sum per column.
SumDim0(t) == <<Tup([k \in DOMAIN t[1] |-> SumSeq(Column(t, k))])>>

\* The divisor of entry (i, k) had the sum been taken down the columns (dim=0).
DenominatorDim0(num, i, k) == SumDim0(num)[1][k]

\* torch.sum(gamma_numerator, dim=1, keepdim=True) broadcast by torch.div: the
\* divisor of entry (i, k) is the sum of row i.
Denominator(num, i, k) == SumSeq(num[i])

\* compute_gamma(pi, probs)
compute_gamma(p, pr) ==
    LET gamma_numerator == Numerator(p, pr)
    IN Tup([i \in DOMAIN pr |->
              Tup([k \in DOMAIN pr[i] |->
                     <<gamma_numerator[i][k], Denominator(gamma_numerator, i, k)>>])])

Shapes == {<<m, k>> \in (1..MaxCells) \X (1..MaxCells) : m * k <= MaxCells}

Matrices(m, k, W) ==
    {mat \in SeqsUpTo({r \in SeqsUpTo(W, k) : Len(r) = k}, m) : Len(mat) = m}

InitGamma ==
    /\ IdleKM /\ IdleLoad /\ IdleTrain
    /\ \E sh \in Shapes :
          /\ probs \in Matrices(sh[1], sh[2], ProbWeights)
          /\ gpi \in Matrices(1, sh[2], PiWeights) \cup Matrices(sh[1], sh[2], PiWeights)
    /\ gamma = <<>>
    /\ N_k = <<>>
    /\ pi_k = <<>>
    /\ gpc = "call"

\* gamma = compute_gamma(pi, probs)  (line 190)
ComputeGamma ==
    /\ gpc = "call"
    /\ gamma' = compute_gamma(gpi, probs)
    /\ gpc' = "gamma"
    /\ UNCHANGED <<gpi, probs, N_k, pi_k>>

\* N = gamma.sum(dim=0, keepdim=True)  (line 192)
SumGamma ==
    /\ gpc = "gamma"
    /\ N_k' = Tup([k \in DOMAIN gamma[1] |-> FracSum(Column(gamma, k))])
    /\ gpc' = "N"
    /\ UNCHANGED <<gpi, probs, gamma, pi_k>>

\* pi = N / X_batch.size(0)  (line 194)
RebindPi ==
    /\ gpc = "N"
    /\ pi_k' = Tup([k \in DOMAIN N_k |-> <<N_k[k][1], N_k[k][2] * Len(probs)>>])
    /\ gpc' = "pi"
    /\ UNCHANGED <<gpi, probs, gamma, N_k>>

NextGamma ==
    \/ ComputeGamma /\ UNCHANGED <<kmVars, ldVars, trVars>>
    \/ SumGamma /\ UNCHANGED <<kmVars, ldVars, trVars>>
    \/ RebindPi /\ UNCHANGED <<kmVars, ldVars, trVars>>

SpecGamma == InitGamma /\ [][NextGamma]_vars

\* ------------------------------------------------------------------ claim on compute_gamma
StrictlyPositive(m) == \A i \in DOMAIN m : \A k \in DOMAIN m[i] : m[i][k] > 0

IsOne(f) == f[2] # 0 /\ f[1] = f[2]

\* C6: for strictly positive pi and probs every row of
\* gamma = compute_gamma(pi, probs) sums to 1: the entries of row i of
\* pi * probs add up to the denominator row i is divided by.
C6_GammaRowsSumToOne ==
    (gpc = "gamma" /\ StrictlyPositive(gpi) /\ StrictlyPositive(probs)) =>
        /\ DOMAIN gamma = DOMAIN probs
        /\ \A i \in DOMAIN gamma :
              /\ IsOne(FracSum(gamma[i]))
              /\ \A k \in DOMAIN gamma[i] :
                    gamma[i][k][2] = SumSeq(Numerator(gpi, probs)[i])

\* A 2 x 2 gamma from positive inputs whose rows and columns differ.
C6_Witness ==
    /\ gpc = "gamma"
    /\ StrictlyPositive(gpi) /\ StrictlyPositive(probs)
    /\ Len(probs) = 2 /\ Len(probs[1]) = 2 /\ Len(gpi) = 2
    /\ gpi[1] # gpi[2]
    /\ probs[1][1] # probs[2][1]
    /\ \A i \in DOMAIN gamma : IsOne(FracSum(gamma[i]))


\* ------------------------------------------------------------------ training cell
MaxN == 5          \* nodes of a training dataset
MaxBatchSize == 5  \* batch_size is 1..MaxBatchSize
MaxEpochs == 2     \* num_epochs is 1..MaxEpochs
MaxRowVisits == 6  \* num_epochs * len(dataset) stays within this

\* Niter=10, the default KMeans(X_batch, K) runs with (line 139).
DefaultNiter == 10

LossValues == {1, 2}

\* Node vectors by position in the id-sorted dataset: all equal (1) or
\* alternating between two values (2).
RowPatterns == 1..2

\* Ascending id lists of length n over 0..n: the contiguous 0..n-1 and the
\* lists that skip one id.
IdLists(n) == {Tup([p \in 1..n |-> IF p - 1 < gap THEN p - 1 ELSE p]) : gap \in 0..n}

TrainDatasets ==
    {Tup([p \in 1..Len(ids) |-> <<ids[p], <<(p - 1) % m>>>>]) :
        ids \in UNION {IdLists(n) : n \in 1..MaxN}, m \in RowPatterns}

Keys(d) == {d[i][1] : i \in DOMAIN d}

\* dataset[key]
Lookup(d, key) == d[CHOOSE i \in DOMAIN d : d[i][1] = key][2]

Ceil(a, b) == (a + b - 1) \div b

\* Sequences of m distinct elements of S.
RECURSIVE Picks(_, _)
Picks(S, m) ==
    IF m = 0 THEN {<<>>}
    ELSE UNION {{<<e>> \o q : q \in Picks(S \ {e}, m - 1)} : e \in S}

\* -(len(dataset) // batch_size): the slice start had the division come first.
SliceStartFloor(n, bs) == 0 - (n \div bs)

\* -len(dataset) // batch_size: the unary minus binds first, and // floors.
SliceStart(n, bs) == (0 - n) \div bs

\* seq[start:]
PySliceFrom(seq, start) ==
    LET begin == IF start < 0
                 THEN (IF Len(seq) + start < 0 THEN 0 ELSE Len(seq) + start)
                 ELSE Min2(start, Len(seq))
    IN SubSeq(seq, begin + 1, Len(seq))

\* State after the cells up to line 291: the dataset loaded and id-sorted,
\* gmm fitted on the raw x (line 278), train_loss empty.
InitTrain ==
    /\ IdleKM /\ IdleGamma
    /\ file = <<>> /\ skipgram = <<>> /\ lpc = "tensor"
    /\ dataset \in TrainDatasets
    /\ x = Tup([i \in DOMAIN dataset |-> dataset[i][2]])
    /\ batch_size \in 1..MaxBatchSize
    /\ num_epochs \in 1..MaxEpochs
    /\ num_epochs * Len(dataset) <= MaxRowVisits
    /\ K \in 1..MaxK
    /\ pc = "for_epoch" /\ epoch = -1
    /\ remaining = {} /\ X_batch = <<>> /\ batchKeys = <<>> /\ epochKeys = <<>>
    /\ epochStart = 0 /\ nbatch = 0 /\ gmmFit = 0 /\ probsFit = -1 /\ loss = 0
    /\ train_loss = <<>> /\ nstep = 0 /\ nzero = 0 /\ printed = <<>> /\ err = ""

\* for epoch in range(num_epochs): the next epoch begins (lines 293-296); the
\* DataLoader iterator starts over the indices 0..len(dataset)-1.
ForEpoch ==
    /\ pc = "for_epoch"
    /\ epoch + 1 < num_epochs
    /\ epoch' = epoch + 1
    /\ remaining' = 0..(Len(dataset) - 1)
    /\ epochKeys' = <<>>
    /\ epochStart' = Len(train_loss)
    /\ pc' = "for_batch"
    /\ UNCHANGED <<batch_size, num_epochs, K, X_batch, batchKeys, nbatch, gmmFit,
                   probsFit, loss, train_loss, nstep, nzero, printed, err>>

\* The loop is exhausted: model.train(False)  (line 316)
Finish ==
    /\ pc = "for_epoch"
    /\ epoch + 1 >= num_epochs
    /\ pc' = "done"
    /\ UNCHANGED <<batch_size, num_epochs, K, epoch, remaining, X_batch, batchKeys,
                   epochKeys, epochStart, nbatch, gmmFit, probsFit, loss, train_loss,
                   nstep, nzero, printed, err>>

\* for X_batch in train_batch_gen (line 298, DataLoader of line 277): the
\* shuffled sampler hands out the next batch_size indices (fewer at the end)
\* and the batch is [dataset[i] for i in indices].
FetchBatch ==
    /\ pc = "for_batch"
    /\ remaining # {}
    /\ \E idx \in Picks(remaining, Min2(batch_size, Cardinality(remaining))) :
          /\ \A i \in DOMAIN idx : idx[i] \in Keys(dataset)
          /\ X_batch' = Tup([i \in DOMAIN idx |-> Lookup(dataset, idx[i])])
          /\ batchKeys' = idx
          /\ epochKeys' = epochKeys \o idx
          /\ remaining' = remaining \ {idx[i] : i \in DOMAIN idx}
    /\ nbatch' = nbatch + 1
    /\ pc' = "kmeans"
    /\ UNCHANGED <<batch_size, num_epochs, K, epoch, epochStart, gmmFit, probsFit,
                   loss, train_loss, nstep, nzero, printed, err>>

\* An index of the batch is no key of the OrderedDict: dataset[i] raises.
FetchKeyError ==
    /\ pc = "for_batch"
    /\ remaining # {}
    /\ \E idx \in Picks(remaining, Min2(batch_size, Cardinality(remaining))) :
          \E i \in DOMAIN idx : idx[i] \notin Keys(dataset)
    /\ pc' = "error"
    /\ err' = "KeyError"
    /\ UNCHANGED <<batch_size, num_epochs, K, epoch, remaining, X_batch, batchKeys,
                   epochKeys, epochStart, nbatch, gmmFit, probsFit, loss, train_loss,
                   nstep, nzero, printed>>

\* The DataLoader iterator is exhausted: on to the print of line 312.
EpochExhausted ==
    /\ pc = "for_batch"
    /\ remaining = {}
    /\ pc' = "print"
    /\ UNCHANGED <<batch_size, num_epochs, K, epoch, remaining, X_batch, batchKeys,
                   epochKeys, epochStart, nbatch, gmmFit, probsFit, loss, train_loss,
                   nstep, nzero, printed, err>>

trRest == <<batch_size, num_epochs, K, epoch, remaining, X_batch, batchKeys,
            epochKeys, epochStart, nbatch>>

\* l, pi = KMeans(X_batch, K): the call (line 301)
CallKMeans ==
    /\ pc = "kmeans"
    /\ KMeansEntry(X_batch, K, DefaultNiter)
    /\ pc' = "in_kmeans"
    /\ UNCHANGED <<trRest, gmmFit, probsFit, loss, train_loss, nstep, nzero, printed, err>>

\* KMeans returned (line 301): on to compute_loss.
KMeansDone ==
    /\ pc = "in_kmeans"
    /\ kpc = "returned"
    /\ pc' = "compute_loss"
    /\ UNCHANGED <<trRest, gmmFit, probsFit, loss, train_loss, nstep, nzero, printed, err>>

\* KMeans raised: nothing in the cell catches it.
KMeansRaised ==
    /\ pc = "in_kmeans"
    /\ kpc = "raised"
    /\ pc' = "error"
    /\ err' = kerr
    /\ UNCHANGED <<trRest, gmmFit, probsFit, loss, train_loss, nstep, nzero, printed>>

\* compute_loss, lines 185-194: X = model(X_batch); probs from
\* gmm.predict_proba(X) under the parameters gmm holds at this point; gamma, N, pi.
Predict ==
    /\ pc = "compute_loss"
    /\ probsFit' = gmmFit
    /\ pc' = "fit"
    /\ UNCHANGED <<trRest, gmmFit, loss, train_loss, nstep, nzero, printed, err>>

\* compute_loss, lines 196-205: gmm.fit(X.numpy()) refits on this batch's
\* output; psi, Sigma; the loss from pi and the probs computed above.
Fit ==
    /\ pc = "fit"
    /\ gmmFit' = nbatch
    /\ loss' \in LossValues
    /\ pc' = "backward"
    /\ UNCHANGED <<trRest, probsFit, train_loss, nstep, nzero, printed, err>>

\* loss.backward(retain_graph=True)  (line 305)
Backward ==
    /\ pc = "backward"
    /\ pc' = "step"
    /\ UNCHANGED <<trRest, gmmFit, probsFit, loss, train_loss, nstep, nzero, printed, err>>

\* opt.step()  (line 307)
OptStep ==
    /\ pc = "step"
    /\ nstep' = nstep + 1
    /\ pc' = "zero_grad"
    /\ UNCHANGED <<trRest, gmmFit, probsFit, loss, train_loss, nzero, printed, err>>

\* opt.zero_grad() left out.
ZeroGradSkipped ==
    /\ pc = "zero_grad"
    /\ pc' = "append"
    /\ UNCHANGED <<trRest, gmmFit, probsFit, loss, train_loss, nstep, nzero, printed, err>>

\* opt.zero_grad()  (line 308)
ZeroGrad ==
    /\ pc = "zero_grad"
    /\ nzero' = nzero + 1
    /\ pc' = "append"
    /\ UNCHANGED <<trRest, gmmFit, probsFit, loss, train_loss, nstep, printed, err>>

\* train_loss.append(loss.data.cpu().numpy())  (line 310)
AppendLoss ==
    /\ pc = "append"
    /\ train_loss' = Append(train_loss, loss)
    /\ pc' = "for_batch"
    /\ UNCHANGED <<trRest, gmmFit, probsFit, loss, nstep, nzero, printed, err>>

\* print(... np.mean(train_loss[-len(dataset) // batch_size :]))  (lines 312-314)
PrintLoss ==
    /\ pc = "print"
    /\ LET slice == PySliceFrom(train_loss, SliceStart(Len(dataset), batch_size))
       IN printed' = [slice |-> slice, mean |-> <<SumSeq(slice), Len(slice)>>]
    /\ pc' = "for_epoch"
    /\ UNCHANGED <<trRest, gmmFit, probsFit, loss, train_loss, nstep, nzero, err>>

\* A call into torch or sklearn raises (an anomaly found by detect_anomaly, an
\* ill-conditioned fit, a tensor the call does not accept).
LibraryRaise ==
    /\ pc \in {"compute_loss", "fit", "backward", "step"}
    /\ pc' = "error"
    /\ err' = "LibraryError"
    /\ UNCHANGED <<trRest, gmmFit, probsFit, loss, train_loss, nstep, nzero, printed>>

InKMeans == pc = "in_kmeans"

Next ==
    \/ ForEpoch /\ UNCHANGED <<kmVars, ldVars, gmVars>>
    \/ Finish /\ UNCHANGED <<kmVars, ldVars, gmVars>>
    \/ FetchBatch /\ UNCHANGED <<kmVars, ldVars, gmVars>>
    \/ FetchKeyError /\ UNCHANGED <<kmVars, ldVars, gmVars>>
    \/ EpochExhausted /\ UNCHANGED <<kmVars, ldVars, gmVars>>
    \/ CallKMeans /\ UNCHANGED <<ldVars, gmVars>>
    \/ InKMeans /\ KMeansIter /\ UNCHANGED <<ldVars, trVars, gmVars>>
    \/ InKMeans /\ KMeansReturn /\ UNCHANGED <<ldVars, trVars, gmVars>>
    \/ KMeansDone /\ UNCHANGED <<kmVars, ldVars, gmVars>>
    \/ KMeansRaised /\ UNCHANGED <<kmVars, ldVars, gmVars>>
    \/ Predict /\ UNCHANGED <<kmVars, ldVars, gmVars>>
    \/ Fit /\ UNCHANGED <<kmVars, ldVars, gmVars>>
    \/ Backward /\ UNCHANGED <<kmVars, ldVars, gmVars>>
    \/ OptStep /\ UNCHANGED <<kmVars, ldVars, gmVars>>
    \/ ZeroGrad /\ UNCHANGED <<kmVars, ldVars, gmVars>>
    \/ AppendLoss /\ UNCHANGED <<kmVars, ldVars, gmVars>>
    \/ PrintLoss /\ UNCHANGED <<kmVars, ldVars, gmVars>>
    \/ LibraryRaise /\ UNCHANGED <<kmVars, ldVars, gmVars>>

Spec == InitTrain /\ [][Next]_vars

\* ------------------------------------------------------------------ claims on the training cell
InBatchAfterPredict == pc \in {"fit", "backward", "step", "zero_grad", "append"}

\* C1: in every training batch the posteriors (probs) entering the loss come
\* from the mixture parameters fitted on that batch's network output, never
\* from the fit of an earlier batch or the initial fit on the raw vectors.
C1_PosteriorsFromThisBatchFit ==
    InBatchAfterPredict => probsFit = nbatch

\* Some cluster received no member in the centroid update of the KMeans call
\* of the current batch.
EmptyClusterSeen ==
    /\ pc \notin {"for_epoch", "kmeans"}
    /\ Ncl # <<>>
    /\ \/ Len(Ncl) < Len(c)
       \/ \E j \in DOMAIN Ncl : Ncl[j] = 0

\* C3: once a cluster has received zero members in a KMeans iteration of a
\* training batch the run has aborted there with a numerical-instability
\* error: no further assignment, no optimizer step, no later batch.
C3_EmptyClusterAborts ==
    EmptyClusterSeen => (pc = "error" /\ err = "NumericalInstabilityError")

BatchesPerEpoch == Ceil(Len(dataset), batch_size)

BetweenBatches == pc \in {"for_epoch", "for_batch", "print", "done"}

C7_Counts ==
    /\ BetweenBatches =>
          /\ nstep = nbatch
          /\ nzero = nbatch
          /\ Len(train_loss) = nbatch
    /\ pc = "done" =>
          /\ epoch + 1 = num_epochs
          /\ nbatch = num_epochs * BatchesPerEpoch
          /\ nstep = num_epochs * BatchesPerEpoch
          /\ nzero = num_epochs * BatchesPerEpoch
          /\ Len(train_loss) = num_epochs * BatchesPerEpoch
    \* KMeansIter can step whenever its loop guard holds.
    /\ pc \notin {"done", "error"} =>
          IF InKMeans /\ KMeansLoopGuard THEN TRUE ELSE ENABLED Next

\* What is left to do, as a natural number: epochs not begun, rows not yet
\* drawn and the batch in hand, statements left in the batch.
StageWeight == 2 * DefaultNiter + 20

Stage ==
    CASE pc = "for_batch"    -> StageWeight - 1
      [] pc = "kmeans"       -> StageWeight - 2
      [] pc = "in_kmeans"    -> 10 + 2 * (kNiter - ki) + (IF kpc = "loop" THEN 1 ELSE 0)
      [] pc = "compute_loss" -> 8
      [] pc = "fit"          -> 7
      [] pc = "backward"     -> 6
      [] pc = "step"         -> 5
      [] pc = "zero_grad"    -> 4
      [] pc = "append"       -> 3
      [] pc = "print"        -> 2
      [] OTHER               -> 1

Rank ==
    IF pc \in {"done", "error"} THEN 0
    ELSE 1 + (num_epochs - 1 - epoch) * (2 * Len(dataset) + 2) * StageWeight
           + (2 * Cardinality(remaining) + (IF BetweenBatches THEN 0 ELSE 1)) * StageWeight
           + Stage

\* C7: the loop is a fixed-budget loop.  Every step leaves less to do, no
\* state short of the end or an error is stuck, each batch gets exactly one
\* optimizer step, one gradient clear and one recorded loss, and a run that
\* ends without error ends after num_epochs epochs with
\* num_epochs * ceil(len(dataset) / batch_size) of each, whatever the losses.
C7_FixedBudgetLoop ==
    /\ []C7_Counts
    /\ [][Rank' < Rank /\ Rank' >= 0]_vars

\* A run that ended without error after an epoch of two batches with
\* different losses.
C7_Witness ==
    /\ pc = "done"
    /\ BatchesPerEpoch = 2
    /\ train_loss = <<2, 1>>
    /\ nstep = 2 /\ nzero = 2

EpochLosses == SubSeq(train_loss, epochStart + 1, Len(train_loss))

\* C8: the loss printed at the end of an epoch is the mean over the last
\* ceil(len(dataset) / batch_size) recorded losses, and these are exactly the
\* losses recorded during that epoch.
C8_ReportedMeanIsEpochMean ==
    (pc \in {"for_epoch", "done"} /\ epoch >= 0) =>
        /\ printed.slice = EpochLosses
        /\ Len(printed.slice) = BatchesPerEpoch
        /\ printed.slice =
              SubSeq(train_loss, Len(train_loss) - BatchesPerEpoch + 1, Len(train_loss))
        /\ printed.mean = <<SumSeq(EpochLosses), BatchesPerEpoch>>

\* An epoch report over two batches where batch_size does not divide the
\* dataset size.
C8_Witness ==
    /\ pc = "for_epoch" /\ epoch >= 0
    /\ Len(dataset) > batch_size
    /\ Len(dataset) % batch_size # 0
    /\ printed.slice = <<1, 2>>
    /\ printed.mean = <<3, 2>>

\* A second epoch's report, which leaves the first epoch's losses out.
C8_SecondEpochReached ==
    /\ pc = "for_epoch" /\ epoch = 1
    /\ Len(train_loss) = 2 * BatchesPerEpoch
    /\ train_loss[1] # train_loss[Len(train_loss)]

EachKeyOnce(keys, d) ==
    /\ Len(keys) = Len(d)
    /\ \A i \in DOMAIN d : Cardinality({p \in DOMAIN keys : keys[p] = d[i][1]}) = 1

\* C10: in every epoch the batches drawn partition the loaded node vectors,
\* each node in exactly one batch, also when the node ids are not 0..N-1.
C10_BatchesPartitionDataset ==
    /\ err # "KeyError"
    /\ pc = "print" => EachKeyOnce(epochKeys, dataset)

=============================================================================
